---- MODULE Spec2Model ----
(***************************************************************************)
(* Backtest and scoring engine of the strategy optimizer                   *)
(* (src/strategy_optimizer.py): the per-symbol replay of a signal table,   *)
(* the performance metrics, the scores and the qualification verdict.      *)
(*                                                                         *)
(* Floats are modelled as exact rationals [n, d] in lowest terms with      *)
(* d > 0; the float NaN is the record [n |-> 0, d |-> 0].  The Sharpe      *)
(* ratio mean / std * sqrt(252) is kept exactly as its sign and its        *)
(* square, a sum "rational + square root" as the pair of the rational and  *)
(* the radicand.                                                           *)
(***************************************************************************)
EXTENDS Integers, Sequences, FiniteSets, TLC

(***************************************************************************)
(* Bounds of the model.                                                    *)
(***************************************************************************)
\* longest single-symbol table
MaxLenDeep == 2
\* longest two-symbol table with increasing timestamps
MaxLenWide == 4
\* longest two-symbol table with rows in any order of timestamps
MaxLenMixed == 2
\* largest timestamp of a two-symbol table
MaxTime == 2
\* largest close price (the smallest is 1)
MaxPrice == 2
\* longest table with arbitrary columns, signals and sizes
MaxLenLoose == 2
\* most round trips of a table of round trips
MaxTrips == 3
\* longest table that is evaluated a second time
MaxLenRerun == 2
\* largest total_return (percent) given to score_performance on its own
MaxReturn == 21
\* largest max_drawdown (percent) given to score_performance on its own
MaxDrawdownIn == 21
\* largest sharpe_ratio given to score_performance on its own, in steps of 2/7
MaxSharpeSteps == 8

\* most rows of the merged table that strategy.py walks over
MaxRows == 63
\* most rows of the target table given to the template strategy
MaxTemplateRows == 3
\* largest quality score of an entry candidate (0: no setup)
MaxScore == 2
\* most signals strategy.py emits in a run
MaxSignals == 4

(***************************************************************************)
(* Numbers.                                                                *)
(***************************************************************************)
RECURSIVE Gcd(_, _)
Gcd(a, b) == IF b = 0 THEN a ELSE Gcd(b, a % b)

Abs(x) == IF x < 0 THEN -x ELSE x

NaN == [n |-> 0, d |-> 0]

IsNaN(a) == a.d = 0

\* the rational n / d in lowest terms, NaN when d = 0
R(n, d) ==
    IF d = 0 THEN NaN
    ELSE LET g == Gcd(Abs(n), Abs(d))
             s == IF d < 0 THEN -1 ELSE 1
         IN  [n |-> s * (n \div g), d |-> s * (d \div g)]

Int2R(k) == [n |-> k, d |-> 1]

Zero == Int2R(0)

One == Int2R(1)

\* a's numerator over the least common denominator of a and b
Scaled(a, b) == a.n * (b.d \div Gcd(a.d, b.d))

Lcd(a, b) == a.d * (b.d \div Gcd(a.d, b.d))

Add(a, b) == IF IsNaN(a) \/ IsNaN(b) THEN NaN ELSE R(Scaled(a, b) + Scaled(b, a), Lcd(a, b))

Sub(a, b) == IF IsNaN(a) \/ IsNaN(b) THEN NaN ELSE R(Scaled(a, b) - Scaled(b, a), Lcd(a, b))

Mul(a, b) ==
    IF IsNaN(a) \/ IsNaN(b) THEN NaN
    ELSE LET g == Gcd(Abs(a.n), b.d)
             h == Gcd(Abs(b.n), a.d)
         IN  R((a.n \div g) * (b.n \div h), (a.d \div h) * (b.d \div g))

\* float division (every division of the program has a non-zero divisor)
Div(a, b) ==
    IF IsNaN(a) \/ IsNaN(b) \/ b.n = 0 THEN NaN
    ELSE Mul(a, IF b.n < 0 THEN [n |-> -b.d, d |-> -b.n] ELSE [n |-> b.d, d |-> b.n])

\* comparisons with NaN are all false
Gt(a, b) == ~IsNaN(a) /\ ~IsNaN(b) /\ Scaled(a, b) > Scaled(b, a)

Ge(a, b) == ~IsNaN(a) /\ ~IsNaN(b) /\ Scaled(a, b) >= Scaled(b, a)

Lt(a, b) == Gt(b, a)

Le(a, b) == Ge(b, a)

\* abs() of a float
FAbs(a) == [n |-> Abs(a.n), d |-> a.d]

\* Python's max(a, b): a unless b > a
PyMax(a, b) == IF Gt(b, a) THEN b ELSE a

\* Python's min(a, b): a unless b < a
PyMin(a, b) == IF Lt(b, a) THEN b ELSE a

\* numpy's maximum(a, b): NaN when either is NaN
NpMaximum(a, b) == IF IsNaN(a) \/ IsNaN(b) THEN NaN ELSE IF Gt(b, a) THEN b ELSE a

\* numpy's minimum(a, b): NaN when either is NaN
NpMinimum(a, b) == IF IsNaN(a) \/ IsNaN(b) THEN NaN ELSE IF Lt(b, a) THEN b ELSE a

RECURSIVE NpSum(_)
NpSum(xs) == IF xs = <<>> THEN Zero ELSE Add(Head(xs), NpSum(Tail(xs)))

RECURSIVE NpMin(_)
NpMin(xs) == IF Len(xs) = 1 THEN xs[1] ELSE NpMinimum(Head(xs), NpMin(Tail(xs)))

\* np.mean
NpMean(xs) == Div(NpSum(xs), Int2R(Len(xs)))

\* square of np.std (population variance): mean of squared deviations
NpVar(xs) ==
    LET m == NpMean(xs)
    IN  Div(NpSum([j \in 1..Len(xs) |-> Mul(Sub(xs[j], m), Sub(xs[j], m))]), Int2R(Len(xs)))

(***************************************************************************)
(* The rounding of np.mean.  The returns are float64 values, and np.std(r)  *)
(* > 0 of line 124 compares the computed deviation, not the exact one: the  *)
(* mean of n equal values x is fl(fl(x + ... + x) / n), which need not be   *)
(* x.  A float is held as [m, e], the number m * 2^e with a mantissa m of   *)
(* MantissaBits bits; a mantissa is too long for one integer of the model   *)
(* and is held as its digits to the base Base, lowest first.                *)
(***************************************************************************)
\* bits of the mantissa of a float64
MantissaBits == 53

Base == 2 ^ 15

RECURSIVE IntBits(_)
IntBits(x) == IF x = 0 THEN 0 ELSE 1 + IntBits(x \div 2)

DigitBits == IntBits(Base - 1)

RECURSIVE BigFromInt(_)
BigFromInt(x) == IF x = 0 THEN <<>> ELSE <<x % Base>> \o BigFromInt(x \div Base)

RECURSIVE BigStrip(_)
BigStrip(a) ==
    IF a # <<>> /\ a[Len(a)] = 0 THEN BigStrip(SubSeq(a, 1, Len(a) - 1)) ELSE a

BigBits(a) == IF a = <<>> THEN 0 ELSE DigitBits * (Len(a) - 1) + IntBits(a[Len(a)])

RECURSIVE BigAddCarry(_, _, _)
BigAddCarry(a, b, c) ==
    IF a = <<>> /\ b = <<>> THEN BigFromInt(c)
    ELSE LET x == (IF a = <<>> THEN 0 ELSE Head(a)) + (IF b = <<>> THEN 0 ELSE Head(b)) + c
         IN  <<x % Base>> \o BigAddCarry(IF a = <<>> THEN a ELSE Tail(a),
                                         IF b = <<>> THEN b ELSE Tail(b), x \div Base)

BigAdd(a, b) == BigAddCarry(a, b, 0)

\* a * x for 0 < x <= Base
RECURSIVE BigMulCarry(_, _, _)
BigMulCarry(a, x, c) ==
    IF a = <<>> THEN BigFromInt(c)
    ELSE <<(Head(a) * x + c) % Base>> \o BigMulCarry(Tail(a), x, (Head(a) * x + c) \div Base)

\* quotient and remainder of a by x, 0 < x <= Base
RECURSIVE BigDivMod(_, _)
BigDivMod(a, x) ==
    IF a = <<>> THEN [q |-> <<>>, r |-> 0]
    ELSE LET t == BigDivMod(Tail(a), x)
             y == t.r * Base + Head(a)
         IN  [q |-> BigStrip(<<y \div x>> \o t.q), r |-> y % x]

\* a * 2^s
BigShl(a, s) ==
    IF a = <<>> THEN a
    ELSE [j \in 1..(s \div DigitBits) |-> 0] \o BigMulCarry(a, 2 ^ (s % DigitBits), 0)

\* a \div 2^s, and whether a bit was shifted out
BigShr(a, s) ==
    LET w == s \div DigitBits
        d == BigDivMod(IF w >= Len(a) THEN <<>> ELSE SubSeq(a, w + 1, Len(a)),
                       2 ^ (s % DigitBits))
    IN  [q |-> d.q, inexact |-> d.r # 0 \/ \E j \in 1..Len(a) : j <= w /\ a[j] # 0]

BigOdd(a) == a # <<>> /\ a[1] % 2 = 1

\* the float nearest to a / x * 2^e, ties to the even mantissa (a > 0, 0 < x <= Base)
RoundToFloat(a, x, e) ==
    LET guard == MantissaBits + 2 + DigitBits
        d == BigDivMod(BigShl(a, guard), x)
        sh == BigBits(d.q) - MantissaBits
        t == BigShr(d.q, sh - 1)
        u == BigShr(t.q, 1).q
        up == BigOdd(t.q) /\ (t.inexact \/ d.r # 0 \/ BigOdd(u))
        m == IF up THEN BigAdd(u, <<1>>) ELSE u
    IN  IF BigBits(m) > MantissaBits
        THEN [m |-> BigShr(m, 1).q, e |-> e - guard + sh + 1]
        ELSE [m |-> m, e |-> e - guard + sh]

\* the float of the size of a number
Float(a) ==
    IF a.n = 0 THEN [m |-> <<>>, e |-> 0] ELSE RoundToFloat(BigFromInt(Abs(a.n)), a.d, 0)

\* a + b of two floats of one sign
FloatAdd(a, b) ==
    LET lo == IF a.e < b.e THEN a.e ELSE b.e
    IN  RoundToFloat(BigAdd(BigShl(a.m, a.e - lo), BigShl(b.m, b.e - lo)), 1, lo)

\* the value of a one-element set: the element is computed once, when the set is
\* built, not inside the computation that uses it
TheOne(S) == CHOOSE v \in S : TRUE

\* np.add.reduce of n values x: fewer than 8 values are added in order
RECURSIVE SumOfCopies(_, _)
SumOfCopies(x, n) ==
    IF n = 1 THEN x ELSE TheOne({FloatAdd(s, x) : s \in {SumOfCopies(x, n - 1)}})

\* np.mean of n values x
MeanOfCopies(x, n) ==
    IF x.m = <<>> THEN x
    ELSE TheOne({RoundToFloat(s.m, n, s.e) : s \in {SumOfCopies(x, n)}})

\* np.std(xs) > 0: false when there is no value or a value is NaN (the deviation
\* is NaN); true when two values differ; for equal values the deviations are
\* x - np.mean, zero only when the mean is x
NpStdPositive(xs) ==
    /\ xs # <<>>
    /\ \A j \in 1..Len(xs) : ~IsNaN(xs[j])
    /\ \/ \E j \in 1..Len(xs) : xs[j] # xs[1]
       \/ \E x \in {Float(xs[1])} : MeanOfCopies(x, Len(xs)) # x

\* np.maximum.accumulate
MaximumAccumulate(xs) ==
    LET RECURSIVE acc(_)
        acc(j) == IF j = 1 THEN xs[1] ELSE NpMaximum(acc(j - 1), xs[j])
    IN  [j \in 1..Len(xs) |-> acc(j)]

\* np.sum(xs > 0)
CountPositive(xs) == Cardinality({j \in 1..Len(xs) : Gt(xs[j], Zero)})

(***************************************************************************)
(* The signal table: a sequence of rows and the set of its columns.        *)
(***************************************************************************)
\* the four fields a strategy returns
RequiredColumns == {"timestamp", "symbol", "signal", "position_size"}

\* the columns a price can come from
PriceColumns == {"price", "true_close", "close_DOGE_1H"}

Symbols == {"DOGE", "AVAX"}

Signals == {"BUY", "SELL", "HOLD"}

Functions == {"calculate_performance_metrics", "patched_performance_metrics"}

Row(sym, ts, sig, size, col, p) ==
    [symbol |-> sym, timestamp |-> ts, signal |-> sig, position_size |-> size,
     price |-> IF col = "price" THEN p ELSE NaN,
     true_close |-> IF col = "true_close" THEN p ELSE NaN,
     close_DOGE_1H |-> IF col = "close_DOGE_1H" THEN p ELSE NaN]

\* close prices, NaN where the price table has no value for the timestamp
Prices == {NaN} \cup {Int2R(p) : p \in 1..MaxPrice}


\* the sizes strategy.py emits: 0.98 on a BUY, 0.0 on a SELL
StrategySize(sig) == IF sig = "BUY" THEN R(49, 50) ELSE Zero

\* the close price of a symbol at a timestamp in the price table the two-symbol
\* tables are priced from: DOGE starts low and alternates, AVAX starts high
Close(sym, ts) == IF (ts % 2 = 1) = (sym = "DOGE") THEN One ELSE Int2R(MaxPrice)

\* rows of one symbol: a BUY of size 0 or 1 or a SELL, at a known or missing price
DeepKinds ==
    [signal : {"BUY"}, position_size : {Zero, One}, price : Prices]
        \cup [signal : {"SELL"}, position_size : {Zero}, price : Prices]

\* one symbol, increasing timestamps
DeepTable(n, f) ==
    [j \in 1..n |-> Row("DOGE", j, f[j].signal, f[j].position_size, "price", f[j].price)]

WideKinds == [symbol : Symbols, signal : Signals]

\* two symbols interleaved, increasing timestamps, the sizes of strategy.py
WideTable(n, f) ==
    [j \in 1..n |-> Row(f[j].symbol, j, f[j].signal, StrategySize(f[j].signal),
                        "true_close", Close(f[j].symbol, j))]

MixedKinds == [symbol : Symbols, timestamp : 1..MaxTime, signal : {"BUY", "SELL"}]

\* two symbols, rows in any order of timestamps, equal timestamps included
MixedTable(n, f) ==
    [j \in 1..n |-> Row(f[j].symbol, f[j].timestamp, f[j].signal,
                        StrategySize(f[j].signal), "true_close",
                        Close(f[j].symbol, f[j].timestamp))]

\* the column sets: a price from each source, no price at all, a required field missing
ColumnSets ==
    {RequiredColumns \cup {c} : c \in PriceColumns}
        \cup {RequiredColumns}
        \cup {(RequiredColumns \cup {"price"}) \ {c} : c \in RequiredColumns}

\* the column of a column set that carries the rows' prices
CarriedColumn(cols) ==
    IF "true_close" \in cols THEN "true_close"
    ELSE IF "close_DOGE_1H" \in cols THEN "close_DOGE_1H" ELSE "price"

\* one symbol, BUY and SELL rows, under any of the column sets
ColumnTable(n, f, cols) ==
    [j \in 1..n |-> Row("DOGE", j, f[j], StrategySize(f[j]), CarriedColumn(cols),
                        Close("DOGE", j))]

\* rows with any signal value and any size, also outside [0, 1]
LooseKinds == [signal : Signals \cup {"SHORT"}, position_size : {One, R(3, 2), R(-1, 2)}]

LooseTable(n, f) ==
    [j \in 1..n |-> Row("DOGE", j, f[j].signal, f[j].position_size, "price", Close("DOGE", j))]

\* rows of full size at the prices of the worked examples: 100 up to 105, 100 down to 95
ExampleKinds == [signal : {"BUY", "SELL"}, price : {Int2R(95), Int2R(100), Int2R(105)}]

ExampleTable(n, f) ==
    [j \in 1..n |-> Row("DOGE", j, f[j].signal, One, "price", f[j].price)]

\* round trips of full size: bought at 100, sold at 80 or 120
TripKinds == [symbol : Symbols, exit : {Int2R(80), Int2R(120)}]

\* n round trips one after the other, a BUY row and the SELL row of the same symbol
TripsTable(n, f) ==
    [j \in 1..(2 * n) |->
        IF j % 2 = 1
        THEN Row(f[(j + 1) \div 2].symbol, j, "BUY", One, "true_close", Int2R(100))
        ELSE Row(f[j \div 2].symbol, j, "SELL", One, "true_close", f[j \div 2].exit)]

(***************************************************************************)
(* calculate_performance_metrics / patched_performance_metrics: helpers.   *)
(***************************************************************************)
\* signals_df['symbol'].unique(): the symbols in order of first appearance
Unique(df) ==
    LET RECURSIVE uniq(_, _)
        uniq(j, seen) ==
            IF j > Len(df) THEN seen
            ELSE IF \E m \in 1..Len(seen) : seen[m] = df[j].symbol THEN uniq(j + 1, seen)
            ELSE uniq(j + 1, Append(seen, df[j].symbol))
    IN  uniq(1, <<>>)

\* signals_df[signals_df['symbol'] == symbol]
FilterSymbol(df, symbol) == SelectSeq(df, LAMBDA r : r.symbol = symbol)

\* sort_values is called without kind: the sort is pandas' default "quicksort",
\* which leaves the order of rows of equal timestamp open; tie_order is the order
\* the sort of the run gives them
VARIABLE tie_order

TieOrders == {"input", "reversed"}

\* two rows of a symbol carry the same timestamp: only then do the orders differ
HasTies(df) ==
    \E a, b \in 1..Len(df) :
        a < b /\ df[a].symbol = df[b].symbol /\ df[a].timestamp = df[b].timestamp

\* row r goes behind row s, which came before it
GoesBehind(r, s) ==
    s.timestamp < r.timestamp \/ (s.timestamp = r.timestamp /\ tie_order = "input")

\* sort_values('timestamp').reset_index(drop=True)
SortValues(rows) ==
    LET RECURSIVE insert(_, _)
        insert(sorted, r) ==
            IF sorted = <<>> THEN <<r>>
            ELSE IF GoesBehind(r, sorted[Len(sorted)]) THEN Append(sorted, r)
            ELSE Append(insert(SubSeq(sorted, 1, Len(sorted) - 1), r), sorted[Len(sorted)])
        RECURSIVE sort(_)
        sort(j) == IF j = 0 THEN <<>> ELSE insert(sort(j - 1), rows[j])
    IN  sort(Len(rows))

\* a patched lookup without the fallback to the price column
ResolveTrueCloseOnly(f, cols) ==
    IF f = "patched_performance_metrics"
    THEN IF "true_close" \in cols THEN "true_close" ELSE "none"
    ELSE IF "price" \in cols THEN "price"
    ELSE IF "close_DOGE_1H" \in cols THEN "close_DOGE_1H"
    ELSE "none"

\* a price lookup that never skips: the price column is taken to exist
ResolveAlwaysPrice(f, cols) ==
    IF f = "patched_performance_metrics" /\ "true_close" \in cols THEN "true_close"
    ELSE "price"

\* the column the prices are read from, "none" when the symbol is skipped
ResolvePriceColumn(f, cols) ==
    IF f = "patched_performance_metrics" /\ "true_close" \in cols THEN "true_close"
    ELSE IF "price" \in cols THEN "price"
    ELSE IF "close_DOGE_1H" \in cols THEN "close_DOGE_1H"
    ELSE "none"

\* a BUY guard that forgets the position
BuyGuardAlways(signal, pos) == signal = "BUY"

\* signal == 'BUY' and position == 0
BuyGuard(signal, pos) == signal = "BUY" /\ pos = Zero

\* a SELL guard that also accepts a flat position
SellGuardFlat(signal, pos) == signal = "SELL" /\ Ge(pos, Zero)

\* a SELL guard that is a bare else
SellGuardElse(signal, pos) == signal # "BUY" /\ Gt(pos, Zero)

\* signal == 'SELL' and position > 0
SellGuard(signal, pos) == signal = "SELL" /\ Gt(pos, Zero)

\* no check of the entry price
EntryGuardNone(entry) == TRUE

\* if entry_price > 0
EntryGuard(entry) == Gt(entry, Zero)

\* a contribution that forgets the size of the position
ContributionUnsized(price, entry, pos) == Div(Sub(price, entry), entry)

\* return_pct * position of a closing SELL
Contribution(price, entry, pos) == Mul(Div(Sub(price, entry), entry), pos)

\* the simulator's variables before the first symbol
InitialState ==
    [position |-> Zero, entry_price |-> Zero, portfolio_value |-> One,
     portfolio_history |-> <<One>>, daily_returns |-> <<>>]

\* a function entry that keeps what the variables held
AccumulatorsKept(st) == st

\* portfolio_value = 1.0; portfolio_history = [portfolio_value]; daily_returns = []
Accumulators(st) ==
    [st EXCEPT !.portfolio_value = One, !.portfolio_history = <<One>>, !.daily_returns = <<>>]

\* the columns of the copy symbol_signals once the prices are in its 'price' column
WithPriceColumn(cols, col) == IF col = "none" THEN cols ELSE cols \cup {"price"}

\* a symbol loop that never resets the position
ResetNothing(st) == st

\* position = 0; entry_price = 0 at the start of a symbol
ResetPosition(st) == [st EXCEPT !.position = Zero, !.entry_price = Zero]

\* a BUY branch that records no entry price
OpenPositionNoPrice(st, position_size, price) == [st EXCEPT !.position = position_size]

\* the BUY branch: position = position_size; entry_price = price
OpenPosition(st, position_size, price) ==
    [st EXCEPT !.position = position_size, !.entry_price = price]

\* the SELL branch: realize the return when entry_price > 0, then go flat
ClosePosition(st, price) ==
    LET c == Contribution(price, st.entry_price, st.position)
        v == Mul(st.portfolio_value, Add(One, c))
    IN  IF EntryGuard(st.entry_price)
        THEN [position |-> Zero, entry_price |-> Zero, portfolio_value |-> v,
              portfolio_history |-> Append(st.portfolio_history, v),
              daily_returns |-> Append(st.daily_returns, c)]
        ELSE [st EXCEPT !.position = Zero, !.entry_price = Zero]

\* one pass of the loop body over a row with the given resolved price
ReplayRecord(st, signal, position_size, price) ==
    IF BuyGuard(signal, st.position) THEN OpenPosition(st, position_size, price)
    ELSE IF SellGuard(signal, st.position) THEN ClosePosition(st, price)
    ELSE st

\* assumed trading days per year of the Sharpe ratio
TradingDays == 252

Sign(a) == IF a.n > 0 THEN 1 ELSE IF a.n < 0 THEN -1 ELSE 0

\* a Sharpe ratio sgn * sqrt(sq)
SharpeZero == [sgn |-> 0, sq |-> Zero]

\* the square a Sharpe ratio of rounding size is held as: with a deviation of one
\* rounding step of the mean, mean / std * sqrt(252) is beyond 10^16, and the
\* program compares a Sharpe ratio with 2 only (line 165)
RoundingSharpe == Int2R(10 ^ 6)

\* np.mean(r) / np.std(r) * np.sqrt(252) when np.std(r) > 0, else 0
SharpeRatio(returns) ==
    LET m == NpMean(returns)
        v == NpVar(returns)
    IN  IF NpStdPositive(returns)
        THEN [sgn |-> Sign(m),
              sq |-> IF v = Zero THEN RoundingSharpe
                     ELSE Div(Mul(Int2R(TradingDays), Mul(m, m)), v)]
        ELSE SharpeZero

\* a drawdown measured from the initial value instead of the running maximum
MaxDrawdownFromStart(history) ==
    LET drawdown == [j \in 1..Len(history) |-> Div(Sub(history[j], history[1]), history[1])]
    IN  FAbs(Mul(NpMin(drawdown), Int2R(100)))

\* abs(np.min((history - peak) / peak) * 100)
MaxDrawdown(history) ==
    LET peak == MaximumAccumulate(history)
        drawdown == [j \in 1..Len(history) |-> Div(Sub(history[j], peak[j]), peak[j])]
    IN  FAbs(Mul(NpMin(drawdown), Int2R(100)))

\* the metrics of the else branch: no realized return
ZeroMetrics ==
    [total_return |-> Zero, sharpe_ratio |-> SharpeZero, max_drawdown |-> Zero,
     num_trades |-> 0, win_rate |-> Zero]

\* a metrics calculation without the branch for no realized return
ComputeMetricsNoDefault(value, history, returns) ==
    [total_return |-> Mul(Sub(value, One), Int2R(100)),
     sharpe_ratio |-> SharpeRatio(returns),
     max_drawdown |-> MaxDrawdown(history),
     num_trades |-> Len(returns),
     win_rate |-> R(CountPositive(returns), Len(returns))]

\* the "Calculate metrics" part
ComputeMetrics(value, history, returns) ==
    IF Len(returns) > 0
    THEN [total_return |-> Mul(Sub(value, One), Int2R(100)),
          sharpe_ratio |-> SharpeRatio(returns),
          max_drawdown |-> MaxDrawdown(history),
          num_trades |-> Len(returns),
          win_rate |-> R(CountPositive(returns), Len(returns))]
    ELSE ZeroMetrics

\* the row loop over the sorted rows of one symbol, prices from column col
ReplayRows(st, rows, col) ==
    LET RECURSIVE fold(_)
        fold(j) ==
            IF j = 0 THEN st
            ELSE ReplayRecord(fold(j - 1), rows[j].signal, rows[j].position_size, rows[j][col])
    IN  fold(Len(rows))

\* the symbol loop over a table that has the four required columns
Simulate(f, cols, df) ==
    LET syms == Unique(df)
        col == ResolvePriceColumn(f, cols)
        RECURSIVE fold(_)
        fold(j) ==
            IF j = 0 THEN InitialState
            ELSE IF col = "none" THEN fold(j - 1)
            ELSE ReplayRows(ResetPosition(fold(j - 1)),
                            SortValues(FilterSymbol(df, syms[j])), col)
    IN  fold(Len(syms))

\* the dict the function returns for a table that has the four required columns
MetricsOf(f, cols, df) ==
    LET st == Simulate(f, cols, df)
    IN  ComputeMetrics(st.portfolio_value, st.portfolio_history, st.daily_returns)

(***************************************************************************)
(* score_performance and the qualification check.  A score that is a       *)
(* square root is the record [sq |-> radicand]; the total is               *)
(* [r |-> rational part, sq |-> radicand].                                 *)
(***************************************************************************)
\* a profitability score with a slope of 2 points per percent
ProfitScoreSlope2(m) == PyMin(Int2R(45), PyMax(Zero, Mul(m.total_return, Int2R(2))))

\* min(45, max(0, total_return * 2.25))
ProfitScore(m) == PyMin(Int2R(45), PyMax(Zero, Mul(m.total_return, R(9, 4))))

\* min(35, max(0, sharpe_ratio * 17.5)), as the radicand of the score
SharpeScore(m) ==
    LET q == Mul(m.sharpe_ratio.sq, R(1225, 4))
    IN  IF m.sharpe_ratio.sgn > 0
        THEN [sq |-> IF Lt(q, Int2R(1225)) THEN q ELSE Int2R(1225)]
        ELSE [sq |-> Zero]

\* a drawdown score that takes the distance from 20
DrawdownScoreAbs(m) == FAbs(Sub(Int2R(20), m.max_drawdown))

\* a drawdown score without the floor at 0
DrawdownScoreRaw(m) == Sub(Int2R(20), m.max_drawdown)

\* max(0, 20 - max_drawdown)
DrawdownScore(m) == PyMax(Zero, Sub(Int2R(20), m.max_drawdown))

score_performance(m) ==
    [profitability |-> ProfitScore(m),
     sharpe |-> SharpeScore(m),
     drawdown |-> DrawdownScore(m),
     total |-> [r |-> Add(ProfitScore(m), DrawdownScore(m)), sq |-> SharpeScore(m).sq]]

\* sqrt(x.sq) >= c, for a rational c >= 0
RootGe(x, c) == Ge(x.sq, Mul(c, c))

\* sqrt(x.sq) <= c, for a rational c >= 0
RootLe(x, c) == Le(x.sq, Mul(c, c))

\* t.r + sqrt(t.sq) >= c
SumGe(t, c) == Le(Sub(c, t.r), Zero) \/ Ge(t.sq, Mul(Sub(c, t.r), Sub(c, t.r)))

\* t.r + sqrt(t.sq) <= c
SumLe(t, c) == Ge(Sub(c, t.r), Zero) /\ Le(t.sq, Mul(Sub(c, t.r), Sub(c, t.r)))

\* a qualification check that looks at the total only
QualifiesOnTotal(s) == SumGe(s.total, Int2R(50))

\* the qualification check of run_optimization
Qualifies(s) ==
    /\ Ge(s.profitability, Int2R(9))
    /\ RootGe(s.sharpe, Int2R(10))
    /\ Ge(s.drawdown, Int2R(5))
    /\ SumGe(s.total, Int2R(50))

(***************************************************************************)
(* State.                                                                  *)
(***************************************************************************)
VARIABLES
    fn,                 \* the function that runs
    signals_df,         \* the rows of the signal table
    columns,            \* the columns of the signal table
    pc,                 \* where the evaluation stands
    symbols,            \* signals_df['symbol'].unique()
    k,                  \* number of symbols taken from symbols
    symbol_signals,     \* the sorted rows of the current symbol
    symbol_columns,     \* the columns of symbol_signals
    price_col,          \* the column the current symbol's prices come from
    i,                  \* index of the next row of symbol_signals
    position,
    entry_price,
    portfolio_value,
    portfolio_history,
    daily_returns,
    metrics,            \* the dict returned; the empty function is {}
    scores,
    qualifies,
    outcome,            \* "none", "metrics" or the exception raised
    run,                \* 1 in the first evaluation of the table, 2 in the second
    first,              \* the metrics the first evaluation returned
    last,               \* history: the last loop step and the state it started from
    closes,             \* history: number of steps that took position from > 0 to 0,
                        \* and of those that started with entry_price > 0
    opened,             \* history: the row that last took position from 0 to > 0
    writers,            \* history: symbols whose replay assigned portfolio_value
    strategy,           \* the module whose generate_signals runs, "none" for none
    spc,                \* where generate_signals stands
    row_index,          \* strategy.py: i, the index of the row of the merged table
    in_position,
    held_symbol,
    held_entry_price,   \* strategy.py: entry_price
    entry_index,
    peak_price,
    trailing_stop,
    last_trade_index,
    last_price,         \* the forward-filled price of the held symbol in the row before
    signals,            \* strategy.py: the list of signals emitted so far
    result_df           \* the table generate_signals returns

sim == <<position, entry_price, portfolio_value, portfolio_history, daily_returns>>

hist == <<last, closes, opened, writers>>

call == <<run, first>>

strat == <<strategy, spc, row_index, in_position, held_symbol, held_entry_price, entry_index,
           peak_price, trailing_stop, last_trade_index, last_price, signals, result_df>>

vars == <<fn, tie_order, signals_df, columns, pc, symbols, k, symbol_signals, symbol_columns, price_col,
          i, sim, metrics, scores, qualifies, outcome, call, hist, strat>>

\* the simulator's variables as a record
State ==
    [position |-> position, entry_price |-> entry_price, portfolio_value |-> portfolio_value,
     portfolio_history |-> portfolio_history, daily_returns |-> daily_returns]

\* the empty dict
EmptyDict == <<>>

NoStep == [op |-> "none"]

\* Python's None where a number is expected
None == -2

\* a missing price (NaN) of the merged table of strategy.py
NoPrice == -1

Missing(p) == p < 0

\* a table that has not been returned
NoFrame == [columns |-> <<>>, rows |-> <<>>]

\* no generate_signals runs
StrategyIdle ==
    /\ strategy = "none"
    /\ spc = "off"
    /\ row_index = 0
    /\ in_position = FALSE
    /\ held_symbol = "None"
    /\ held_entry_price = 0
    /\ entry_index = 0
    /\ peak_price = 0
    /\ trailing_stop = None
    /\ last_trade_index = 0
    /\ last_price = NoPrice
    /\ signals = <<>>
    /\ result_df = NoFrame

Init ==
    /\ \/ /\ fn = "calculate_performance_metrics"
          /\ columns = RequiredColumns \cup {"price"}
          /\ \E n \in 0..MaxLenDeep : \E f \in [1..n -> DeepKinds] :
                signals_df = DeepTable(n, f)
       \/ /\ fn = "patched_performance_metrics"
          /\ columns = RequiredColumns \cup {"true_close"}
          /\ \/ \E n \in 0..MaxLenWide : \E f \in [1..n -> WideKinds] :
                   signals_df = WideTable(n, f)
             \/ \E n \in 0..MaxLenMixed : \E f \in [1..n -> MixedKinds] :
                   signals_df = MixedTable(n, f)
             \/ \E n \in 0..MaxTrips : \E f \in [1..n -> TripKinds] :
                   signals_df = TripsTable(n, f)
       \/ /\ fn \in Functions
          /\ columns \in ColumnSets
          /\ \E n \in 0..MaxLenLoose : \E f \in [1..n -> {"BUY", "SELL"}] :
                signals_df = ColumnTable(n, f, columns)
       \/ /\ fn \in Functions
          /\ columns = RequiredColumns \cup {"price"}
          /\ \E n \in 0..MaxLenLoose : \E f \in [1..n -> LooseKinds] :
                signals_df = LooseTable(n, f)
       \/ /\ fn = "calculate_performance_metrics"
          /\ columns = RequiredColumns \cup {"price"}
          /\ \E n \in 0..MaxLenLoose : \E f \in [1..n -> ExampleKinds] :
                signals_df = ExampleTable(n, f)
    /\ tie_order \in IF HasTies(signals_df) THEN TieOrders ELSE {"input"}
    /\ pc = "start"
    /\ symbols = <<>>
    /\ k = 0
    /\ symbol_signals = <<>>
    /\ symbol_columns = {}
    /\ price_col = "none"
    /\ i = 1
    /\ position = Zero
    /\ entry_price = Zero
    /\ portfolio_value = One
    /\ portfolio_history = <<One>>
    /\ daily_returns = <<>>
    /\ metrics = EmptyDict
    /\ scores = EmptyDict
    /\ qualifies = FALSE
    /\ outcome = "none"
    /\ run = 1
    /\ first = EmptyDict
    /\ last = NoStep
    /\ closes = [all |-> 0, priced |-> 0]
    /\ opened = NoStep
    /\ writers = {}
    /\ StrategyIdle

(***************************************************************************)
(* Actions.                                                                *)
(***************************************************************************)
\* an exception leaves the function
Raise(e) ==
    /\ pc' = "raised"
    /\ outcome' = e

\* portfolio_value = 1.0 ... for symbol in signals_df['symbol'].unique()
Start ==
    /\ pc = "start"
    /\ portfolio_value' = Accumulators(State).portfolio_value
    /\ portfolio_history' = Accumulators(State).portfolio_history
    /\ daily_returns' = Accumulators(State).daily_returns
    /\ IF "symbol" \in columns
       THEN /\ symbols' = Unique(signals_df)
            /\ pc' = "symbol_loop"
            /\ outcome' = outcome
       ELSE /\ Raise("KeyError")
            /\ symbols' = symbols
    /\ UNCHANGED <<fn, tie_order, signals_df, columns, k, symbol_signals, symbol_columns, price_col, i,
                   position, entry_price, metrics, scores, qualifies, call, hist>>
    /\ UNCHANGED strat

\* the head of the symbol loop: filter, sort, reset the position, find the prices
NextSymbol ==
    /\ pc = "symbol_loop"
    /\ k < Len(symbols)
    /\ k' = k + 1
    /\ IF "timestamp" \in columns
       THEN /\ symbol_signals' = SortValues(FilterSymbol(signals_df, symbols[k + 1]))
            /\ position' = ResetPosition(State).position
            /\ entry_price' = ResetPosition(State).entry_price
            /\ price_col' = ResolvePriceColumn(fn, columns)
            /\ symbol_columns' = WithPriceColumn(columns, price_col')
            /\ i' = 1
            /\ pc' = IF price_col' = "none" THEN "symbol_loop" ELSE "replay"
            /\ outcome' = outcome
       ELSE /\ Raise("KeyError")
            /\ UNCHANGED <<symbol_signals, symbol_columns, position, entry_price, price_col, i>>
    /\ last' = [op |-> "NextSymbol", symbol |-> symbols[k + 1], before |-> State]
    /\ UNCHANGED <<fn, tie_order, signals_df, columns, symbols, portfolio_value, portfolio_history,
                   daily_returns, metrics, scores, qualifies, call, closes, opened, writers>>
    /\ UNCHANGED strat

\* one pass of the row loop
ReplayStep ==
    /\ pc = "replay"
    /\ i <= Len(symbol_signals)
    /\ LET row == symbol_signals[i]
           st == ReplayRecord(State, row.signal, row.position_size, row[price_col])
       IN  IF {"signal", "position_size"} \subseteq columns
           THEN /\ position' = st.position
                /\ entry_price' = st.entry_price
                /\ portfolio_value' = st.portfolio_value
                /\ portfolio_history' = st.portfolio_history
                /\ daily_returns' = st.daily_returns
                /\ i' = i + 1
                /\ pc' = IF i = Len(symbol_signals) THEN "symbol_loop" ELSE "replay"
                /\ outcome' = outcome
                /\ last' = [op |-> "ReplayStep", symbol |-> row.symbol, signal |-> row.signal,
                            position_size |-> row.position_size, price |-> row[price_col],
                            before |-> State]
                /\ closes' = IF Gt(position, Zero) /\ st.position = Zero
                             THEN [all |-> closes.all + 1,
                                   priced |-> closes.priced
                                                + IF Gt(entry_price, Zero) THEN 1 ELSE 0]
                             ELSE closes
                /\ opened' = IF position = Zero /\ Gt(st.position, Zero)
                             THEN [op |-> "BUY", position_size |-> row.position_size,
                                   price |-> row[price_col], ignored |-> 0]
                             ELSE IF Gt(position, Zero) /\ row.signal = "BUY"
                             THEN [opened EXCEPT !.ignored = @ + 1]
                             ELSE opened
                /\ writers' = IF Len(st.portfolio_history) > Len(portfolio_history)
                              THEN writers \cup {row.symbol} ELSE writers
           ELSE /\ Raise("KeyError")
                /\ UNCHANGED <<sim, i, hist>>
    /\ UNCHANGED <<fn, tie_order, signals_df, columns, symbols, k, symbol_signals, symbol_columns,
                   price_col, metrics, scores, qualifies, call>>
    /\ UNCHANGED strat

\* the symbol loop is over: "Calculate metrics", return metrics
CalcMetrics ==
    /\ pc = "symbol_loop"
    /\ k = Len(symbols)
    /\ metrics' = ComputeMetrics(portfolio_value, portfolio_history, daily_returns)
    /\ outcome' = "metrics"
    /\ pc' = IF fn = "patched_performance_metrics" THEN "score" ELSE "done"
    /\ UNCHANGED <<fn, tie_order, signals_df, columns, symbols, k, symbol_signals, symbol_columns,
                   price_col, i, sim, scores, qualifies, call, hist>>
    /\ UNCHANGED strat

\* run_optimization: scores = self.score_performance(metrics)
Score ==
    /\ pc = "score"
    /\ scores' = score_performance(metrics)
    /\ pc' = "qualify"
    /\ UNCHANGED <<fn, tie_order, signals_df, columns, symbols, k, symbol_signals, symbol_columns,
                   price_col, i, sim, metrics, qualifies, outcome, call, hist>>
    /\ UNCHANGED strat

\* run_optimization: the qualification check, return qualifies, metrics, scores
Qualify ==
    /\ pc = "qualify"
    /\ qualifies' = Qualifies(scores)
    /\ pc' = "done"
    /\ UNCHANGED <<fn, tie_order, signals_df, columns, symbols, k, symbol_signals, symbol_columns,
                   price_col, i, sim, metrics, scores, outcome, call, hist>>
    /\ UNCHANGED strat

\* run_optimization: except Exception: return False, {}, {}
HandleException ==
    /\ pc = "raised"
    /\ fn = "patched_performance_metrics"
    /\ qualifies' = FALSE
    /\ metrics' = EmptyDict
    /\ scores' = EmptyDict
    /\ pc' = "done"
    /\ UNCHANGED <<fn, tie_order, signals_df, columns, symbols, k, symbol_signals, symbol_columns,
                   price_col, i, sim, outcome, call, hist>>
    /\ UNCHANGED strat

\* the caller evaluates the same table a second time: the entry of the second call
\* of calculate_performance_metrics, up to the head of its symbol loop
Rerun ==
    /\ pc = "done"
    /\ outcome = "metrics"
    /\ fn = "calculate_performance_metrics"
    /\ Len(signals_df) <= MaxLenRerun
    /\ run = 1
    /\ run' = 2
    /\ first' = metrics
    /\ metrics' = EmptyDict
    /\ outcome' = "none"
    /\ portfolio_value' = Accumulators(State).portfolio_value
    /\ portfolio_history' = Accumulators(State).portfolio_history
    /\ daily_returns' = Accumulators(State).daily_returns
    /\ symbols' = Unique(signals_df)
    /\ k' = 0
    /\ symbol_signals' = <<>>
    /\ symbol_columns' = {}
    /\ price_col' = "none"
    /\ i' = 1
    /\ position' = Zero
    /\ entry_price' = Zero
    /\ pc' = "symbol_loop"
    /\ last' = NoStep
    /\ closes' = [all |-> 0, priced |-> 0]
    /\ opened' = NoStep
    /\ writers' = {}
    /\ UNCHANGED <<fn, tie_order, signals_df, columns, scores, qualifies>>
    /\ UNCHANGED strat

Next ==
    \/ Start
    \/ NextSymbol
    \/ ReplayStep
    \/ CalcMetrics
    \/ Score
    \/ Qualify
    \/ HandleException
    \/ Rerun

Spec == Init /\ [][Next]_vars

(***************************************************************************)
(* score_performance and the qualification check on their own: the metrics *)
(* are drawn from the values calculate_performance_metrics can return      *)
(* (max_drawdown is an absolute value or NaN, total_return any number or   *)
(* NaN, sharpe_ratio any number).                                          *)
(***************************************************************************)
ReturnInputs == {Int2R(x) : x \in -MaxReturn..MaxReturn} \cup {NaN}

DrawdownInputs == {Int2R(x) : x \in 0..MaxDrawdownIn} \cup {NaN}

MetricsInputs ==
    [total_return : ReturnInputs,
     sharpe_ratio : {[sgn |-> Sign(Int2R(x)), sq |-> R(4 * x * x, 49)] : x \in -1..MaxSharpeSteps},
     max_drawdown : DrawdownInputs,
     num_trades : {1},
     win_rate : {Zero}]

InitScore ==
    /\ fn = "patched_performance_metrics"
    /\ tie_order = "input"
    /\ columns = RequiredColumns \cup {"true_close"}
    /\ signals_df = <<>>
    /\ pc = "score"
    /\ symbols = <<>>
    /\ k = 0
    /\ symbol_signals = <<>>
    /\ symbol_columns = {}
    /\ price_col = "none"
    /\ i = 1
    /\ position = Zero
    /\ entry_price = Zero
    /\ portfolio_value = One
    /\ portfolio_history = <<One>>
    /\ daily_returns = <<>>
    /\ metrics \in MetricsInputs
    /\ scores = EmptyDict
    /\ qualifies = FALSE
    /\ outcome = "metrics"
    /\ run = 1
    /\ first = EmptyDict
    /\ last = NoStep
    /\ closes = [all |-> 0, priced |-> 0]
    /\ opened = NoStep
    /\ writers = {}
    /\ StrategyIdle

NextScore ==
    \/ Score
    \/ Qualify

SpecScore == InitScore /\ [][NextScore]_vars

(***************************************************************************)
(* generate_signals of src/strategy.py and of src/strategy-template.py.     *)
(* The rows of the merged table are numbered 0, 1, ... in the order of      *)
(* their timestamps (the price tables are keyed by timestamp, line 87       *)
(* takes the sorted set of them); the timestamp of a row is modelled as     *)
(* its number.  What the indicator columns hold is an input of every        *)
(* iteration; the table ends where the run is made to return.  Prices are   *)
(* integers, in thousandths of the price a position is opened at; a ratio   *)
(* such as profit >= take_profit is compared by cross-multiplication, and   *)
(* the trailing stop is kept times Scale.                                   *)
(***************************************************************************)
Strategies == {"strategy", "strategy-template"}

\* get_coin_metadata()["targets"], the symbols in order
Targets(s) == IF s = "strategy" THEN <<"DOGE", "AVAX", "ADA">> ELSE <<"BONK">>

\* the close prices a held target takes: 1.000 and moves of -0.5 %, +0.6 %, +1.2 %
\* and +1.5 %
Levels == {995, 1000, 1006, 1012, 1015}

\* the columns of the table returned
FrameColumns == {"timestamp", "symbol", "signal", "position_size"}

\* the unit of the thresholds: 1 / Scale
Scale == 10000

\* take_profit = 0.014
take_profit == 140

\* stop_loss = 0.0045
stop_loss == 45

min_hold == 2

max_hold == 12

\* trail_activation = 0.005
trail_activation == 50

\* trail_distance = 0.0035
trail_distance == 35

cooldown_period == 3

\* profit >= 0.009 of the quick profit exit
quick_profit == 90

\* (p - entry_price) / entry_price compared with x / Scale
ProfitGe(p, entry, x) == Scale * (p - entry) >= x * entry

ProfitGt(p, entry, x) == Scale * (p - entry) > x * entry

ProfitLe(p, entry, x) == Scale * (p - entry) <= x * entry

\* the rows the loop skips: if i < 50: continue
WarmUpRows == 50

\* what the price column of a target holds in a row where an entry is looked for:
\* nothing, 0 or 1.000 (the loop compares ratios of prices only, so every position
\* is opened at 1.000)
EntryPrices == {NoPrice, 0, 1000}

\* a candidate of any price
PricedAlways(price) == TRUE

\* the price conditions of a candidate: not pd.isna(row[price_col]), row[price_col] > 0
Priced(price) == ~Missing(price) /\ price > 0

\* what the indicator columns of the held symbol say in a row: nothing, an RSI
\* above 82 or below 18 or a Bollinger position above 1.8, a reversal of the MACD
\* histogram or of the 4-hour momentum, an RSI above 78
Indicators == {"calm", "extreme", "reversal", "rsi_above_78"}

\* a merged table that keeps its gaps
NoFfill(prev, raw) == raw

\* .ffill() of the merged table: a missing value takes the value of the row before
Ffill(prev, raw) == IF Missing(raw) THEN prev ELSE raw

\* pd.DataFrame(columns=[...]): no rows, the four columns
EmptyFrame == [columns |-> FrameColumns, rows |-> <<>>]

\* pd.DataFrame(signals), the conversions and sort_values("timestamp")
SignalFrame(sigs) == [columns |-> DOMAIN sigs[1], rows |-> SortValues(sigs)]

\* a signal that also carries the price it was emitted at
SignalPriced(ts, sym, sig) ==
    [timestamp |-> ts, symbol |-> sym, signal |-> sig, position_size |-> StrategySize(sig),
     price |-> 1000]

\* the dict appended to signals
Signal(ts, sym, sig) ==
    [timestamp |-> ts, symbol |-> sym, signal |-> sig, position_size |-> StrategySize(sig)]

\* max(candidates, key=score): the first candidate of the largest score, or "None";
\* quality[t] is the score of target t, 0 when its setup fails, prices[t] its price
BestCandidate(targets, quality, prices) ==
    LET candidate(j) == quality[targets[j]] > 0 /\ Priced(prices[targets[j]])
        RECURSIVE best(_)
        best(j) ==
            IF j = 0 THEN 0
            ELSE LET b == best(j - 1)
                 IN  IF candidate(j) /\ (b = 0 \/ quality[targets[j]] > quality[targets[b]])
                     THEN j ELSE b
        w == best(Len(targets))
    IN  IF w = 0 THEN "None" ELSE targets[w]

\* the targets as a set
TargetSet(s) == {Targets(s)[j] : j \in 1..Len(Targets(s))}

\* the engine of strategy_optimizer.py does not run
EngineIdle ==
    /\ fn = "none"
    /\ tie_order = "input"
    /\ signals_df = <<>>
    /\ columns = {}
    /\ pc = "off"
    /\ symbols = <<>>
    /\ k = 0
    /\ symbol_signals = <<>>
    /\ symbol_columns = {}
    /\ price_col = "none"
    /\ i = 1
    /\ position = Zero
    /\ entry_price = Zero
    /\ portfolio_value = One
    /\ portfolio_history = <<One>>
    /\ daily_returns = <<>>
    /\ metrics = EmptyDict
    /\ scores = EmptyDict
    /\ qualifies = FALSE
    /\ outcome = "none"
    /\ run = 1
    /\ first = EmptyDict
    /\ last = NoStep
    /\ closes = [all |-> 0, priced |-> 0]
    /\ opened = NoStep
    /\ writers = {}

engine == <<fn, tie_order, signals_df, columns, pc, symbols, k, symbol_signals,
            symbol_columns, price_col, i, sim, metrics, scores, qualifies, outcome, call, hist>>

InitStrategy ==
    /\ EngineIdle
    /\ strategy \in Strategies
    /\ spc = "call"
    /\ row_index = 0
    /\ in_position = FALSE
    /\ held_symbol = "None"
    /\ held_entry_price = 0
    /\ entry_index = 0
    /\ peak_price = 0
    /\ trailing_stop = None
    /\ last_trade_index = 0
    /\ last_price = NoPrice
    /\ signals = <<>>
    /\ result_df = NoFrame

\* strategy-template.py: one HOLD row of size 0.0 for every timestamp of target_df
TemplateSignals ==
    /\ spc = "call"
    /\ strategy = "strategy-template"
    /\ \E n \in 0..MaxTemplateRows :
          result_df' = [columns |-> FrameColumns,
                        rows |-> [j \in 1..n |->
                                    [timestamp |-> j - 1, symbol |-> "BONK", signal |-> "HOLD",
                                     position_size |-> Zero]]]
    /\ spc' = "returned"
    /\ UNCHANGED <<strategy, row_index, in_position, held_symbol, held_entry_price, entry_index,
                   peak_price, trailing_stop, last_trade_index, last_price, signals>>
    /\ UNCHANGED engine

\* strategy.py up to the loop: an empty merged table returns at once
Prepare ==
    /\ spc = "call"
    /\ strategy = "strategy"
    /\ \E empty \in BOOLEAN :
          IF empty
          THEN /\ result_df' = EmptyFrame
               /\ spc' = "returned"
          ELSE /\ result_df' = result_df
               /\ spc' = "loop"
    /\ signals' = <<>>
    /\ in_position' = FALSE
    /\ held_symbol' = "None"
    /\ held_entry_price' = 0
    /\ entry_index' = 0
    /\ peak_price' = 0
    /\ trailing_stop' = None
    /\ last_trade_index' = 0
    /\ UNCHANGED <<strategy, row_index, last_price>>
    /\ UNCHANGED engine

\* if i < 50: continue
WarmUp ==
    /\ spc = "loop"
    /\ row_index < MaxRows
    /\ row_index < WarmUpRows
    /\ row_index' = row_index + 1
    /\ UNCHANGED <<strategy, spc, in_position, held_symbol, held_entry_price, entry_index,
                   peak_price, trailing_stop, last_trade_index, last_price, signals, result_df>>
    /\ UNCHANGED engine

\* an exit that does not start the cooldown
ExitUntimed ==
    /\ signals' = Append(signals, Signal(row_index, held_symbol, "SELL"))
    /\ in_position' = FALSE
    /\ held_symbol' = "None"
    /\ trailing_stop' = None
    /\ peak_price' = 0
    /\ UNCHANGED last_trade_index

\* an exit that leaves the position open
ExitOpen ==
    /\ signals' = Append(signals, Signal(row_index, held_symbol, "SELL"))
    /\ last_trade_index' = row_index
    /\ UNCHANGED <<in_position, held_symbol, trailing_stop, peak_price>>

\* if exit_cond: the SELL of the held symbol, and the position is closed
Exit ==
    /\ signals' = Append(signals, Signal(row_index, held_symbol, "SELL"))
    /\ in_position' = FALSE
    /\ held_symbol' = "None"
    /\ trailing_stop' = None
    /\ peak_price' = 0
    /\ last_trade_index' = row_index

\* an iteration with a position: track the peak and the trailing stop, SELL on an
\* exit condition
Manage ==
    /\ spc = "loop"
    /\ row_index < MaxRows
    /\ row_index >= WarmUpRows
    /\ in_position /\ held_symbol # "None"
    /\ \E raw \in Levels \cup {NoPrice}, indicators \in Indicators :
          LET extreme == indicators = "extreme"
              reversal == indicators = "reversal"
              rsi_above_78 == indicators = "rsi_above_78"
              p == Ffill(last_price, raw)
              age == row_index - entry_index
              peak == IF p > peak_price THEN p ELSE peak_price
              stop == peak * (Scale - trail_distance)
              trail == IF ProfitGt(p, held_entry_price, trail_activation)
                            /\ (trailing_stop = None \/ stop > trailing_stop)
                       THEN stop ELSE trailing_stop
              take_profit_hit == ProfitGe(p, held_entry_price, take_profit)
              stop_loss_hit == ProfitLe(p, held_entry_price, -stop_loss)
              trailing_stop_hit == trail # None /\ trail # 0 /\ p * Scale <= trail
              max_hold_reached == age >= max_hold
              quick_profit_exit ==
                  ProfitGe(p, held_entry_price, quick_profit) /\ age >= 2 /\ rsi_above_78
              exit_cond == \/ take_profit_hit \/ stop_loss_hit \/ trailing_stop_hit
                           \/ extreme \/ (reversal /\ age >= min_hold)
                           \/ max_hold_reached \/ quick_profit_exit
          IN  /\ last_price' = IF ~Missing(p) /\ exit_cond THEN NoPrice ELSE p
              /\ IF Missing(p)
                 THEN UNCHANGED <<in_position, held_symbol, peak_price, trailing_stop,
                                  last_trade_index, signals>>
                 ELSE IF exit_cond
                 THEN Exit
                 ELSE /\ peak_price' = peak
                      /\ trailing_stop' = trail
                      /\ UNCHANGED <<in_position, held_symbol, last_trade_index, signals>>
    /\ row_index' = row_index + 1
    /\ UNCHANGED <<strategy, spc, held_entry_price, entry_index, result_df>>
    /\ UNCHANGED engine

\* an iteration without a position, the cooldown over: BUY the best candidate
Enter ==
    /\ spc = "loop"
    /\ row_index < MaxRows
    /\ row_index >= WarmUpRows
    /\ ~(in_position /\ held_symbol # "None")
    /\ ~in_position /\ row_index - last_trade_index >= cooldown_period
    /\ Len(signals) < MaxSignals
    /\ \E anchors_ok \in BOOLEAN :
       \E quality \in [TargetSet(strategy) -> IF anchors_ok THEN 0..MaxScore ELSE {0}] :
       \E prices \in [TargetSet(strategy) -> EntryPrices] :
          \* the price of a target whose setup fails is not looked at
          /\ \A t \in TargetSet(strategy) : quality[t] = 0 => prices[t] = NoPrice
          /\ LET best == IF anchors_ok
                         THEN BestCandidate(Targets(strategy), quality, prices) ELSE "None"
             IN  IF best # "None"
                 THEN /\ held_symbol' = best
                      /\ signals' = Append(signals, Signal(row_index, best, "BUY"))
                      /\ in_position' = TRUE
                      /\ held_entry_price' = prices[best]
                      /\ entry_index' = row_index
                      /\ peak_price' = prices[best]
                      /\ trailing_stop' = None
                      /\ last_price' = prices[best]
                 ELSE UNCHANGED <<held_symbol, signals, in_position, held_entry_price,
                                  entry_index, peak_price, trailing_stop, last_price>>
    /\ row_index' = row_index + 1
    /\ UNCHANGED <<strategy, spc, last_trade_index, result_df>>
    /\ UNCHANGED engine

\* an iteration without a position during the cooldown: neither branch is taken
Cooldown ==
    /\ spc = "loop"
    /\ row_index < MaxRows
    /\ row_index >= WarmUpRows
    /\ ~(in_position /\ held_symbol # "None")
    /\ ~(~in_position /\ row_index - last_trade_index >= cooldown_period /\ Len(signals) < MaxSignals)
    /\ row_index' = row_index + 1
    /\ UNCHANGED <<strategy, spc, in_position, held_symbol, held_entry_price, entry_index,
                   peak_price, trailing_stop, last_trade_index, last_price, signals, result_df>>
    /\ UNCHANGED engine

\* the table has no further row: build the table of the signals and return it
Return ==
    /\ spc = "loop"
    /\ result_df' = IF signals = <<>> THEN EmptyFrame ELSE SignalFrame(signals)
    /\ spc' = "returned"
    /\ UNCHANGED <<strategy, row_index, in_position, held_symbol, held_entry_price, entry_index,
                   peak_price, trailing_stop, last_trade_index, last_price, signals>>
    /\ UNCHANGED engine

NextStrategy ==
    \/ TemplateSignals
    \/ Prepare
    \/ WarmUp
    \/ Manage
    \/ Enter
    \/ Cooldown
    \/ Return

SpecStrategy == InitStrategy /\ [][NextStrategy]_vars

(***************************************************************************)
(* Properties.                                                             *)
(***************************************************************************)
\* the last step replayed a row with this signal
Replayed(signal) == last.op = "ReplayStep" /\ last.signal = signal

\* C1: a SELL row replayed while position = 0 appends nothing to daily_returns,
\* appends nothing to portfolio_history, leaves portfolio_value unchanged and
\* leaves position at 0 (in both functions).
C1_SellWhileFlatIsNoOp ==
    (Replayed("SELL") /\ last.before.position = Zero) =>
        /\ daily_returns = last.before.daily_returns
        /\ portfolio_history = last.before.portfolio_history
        /\ portfolio_value = last.before.portfolio_value
        /\ position = Zero

\* a SELL was replayed while flat, after a BUY of size 0 had recorded an entry price
C1_Witness ==
    /\ Replayed("SELL")
    /\ last.before.position = Zero
    /\ Gt(last.before.entry_price, Zero)

\* C2: a BUY row replayed while position > 0 changes nothing; an open position
\* keeps the size and the price of the BUY that opened it, and the SELL that
\* closes it realizes the return against that price and size.
C2_BuyWhileLongIgnored ==
    /\ (Replayed("BUY") /\ Gt(last.before.position, Zero)) => State = last.before
    /\ Gt(position, Zero) =>
          (position = opened.position_size /\ entry_price = opened.price)
    /\ (Replayed("SELL") /\ Len(daily_returns) > Len(last.before.daily_returns)) =>
          daily_returns[Len(daily_returns)] =
              Mul(Div(Sub(last.price, opened.price), opened.price), opened.position_size)

\* a SELL realized a return after a later BUY of another price had been ignored
C2_Witness ==
    /\ Replayed("SELL")
    /\ Len(daily_returns) > Len(last.before.daily_returns)
    /\ opened.ignored > 0
    /\ last.price # opened.price

\* C3 as stated: every step that closes a position (position > 0 to 0) appends one
\* realized return and one trajectory sample, so the number of realized returns is
\* the number of closing steps and the trajectory is one longer.
C3_OneOutcomePerClose ==
    /\ Len(daily_returns) = closes.all
    /\ Len(portfolio_history) = Len(daily_returns) + 1

\* C3 amended: a closing step appends one realized return and one trajectory sample
\* exactly when the recorded entry price is > 0; a position whose entry price is
\* not > 0 (a BUY at a missing price) is closed without any outcome.
C3_OneOutcomePerPricedClose ==
    /\ Len(daily_returns) = closes.priced
    /\ Len(portfolio_history) = Len(daily_returns) + 1
    /\ (Replayed("SELL") /\ Gt(last.before.position, Zero)) =>
          /\ position = Zero
          /\ Len(daily_returns) = Len(last.before.daily_returns)
                + IF Gt(last.before.entry_price, Zero) THEN 1 ELSE 0

\* the second position of a table was closed with an outcome
C3_Witness ==
    /\ Replayed("SELL")
    /\ Gt(last.before.position, Zero)
    /\ Gt(last.before.entry_price, Zero)
    /\ closes.all = 2

\* C4 as stated: whenever position > 0 the recorded entry price is > 0.
C4_EntryPricePositive == Gt(position, Zero) => Gt(entry_price, Zero)

\* C4 amended: whenever position > 0 the recorded entry price is the price of the
\* BUY row that opened the position: > 0 when that row has a price, NaN when the
\* price is missing.
C4_EntryPriceIsOpeningPrice ==
    Gt(position, Zero) =>
        /\ entry_price = opened.price
        /\ IsNaN(opened.price) \/ Gt(entry_price, Zero)

\* a position is open at a known price, opened after an earlier close
C4_Witness ==
    /\ Gt(position, Zero)
    /\ Gt(entry_price, Zero)
    /\ closes.all > 0

\* the evaluation has returned its metrics
Returned == pc = "done" /\ outcome = "metrics"

\* row m of the table is replayed after row j of the same symbol
ReplayedAfter(df, j, m) ==
    /\ df[m].symbol = df[j].symbol
    /\ \/ df[m].timestamp > df[j].timestamp
       \/ /\ df[m].timestamp = df[j].timestamp
          /\ IF tie_order = "input" THEN m > j ELSE m < j

\* the BUY rows with no later SELL of their symbol
TrailingBuys(df) ==
    {j \in 1..Len(df) :
        /\ df[j].signal = "BUY"
        /\ ~\E m \in 1..Len(df) : ReplayedAfter(df, j, m) /\ df[m].signal = "SELL"}

RemoveRow(df, j) == SubSeq(df, 1, j - 1) \o SubSeq(df, j + 1, Len(df))

C6_NoSharedState == Cardinality(writers) <= 1

\* C6 amended: position and entry_price are set to 0 at the head of every symbol's
\* replay, whatever the previous symbol left; portfolio_value, portfolio_history
\* and daily_returns are carried from one symbol's replay into the next.
C6_OnlyPositionIsPerSymbol ==
    (last.op = "NextSymbol" /\ pc # "raised") =>
        /\ position = Zero
        /\ entry_price = Zero
        /\ portfolio_value = last.before.portfolio_value
        /\ portfolio_history = last.before.portfolio_history
        /\ daily_returns = last.before.daily_returns

\* the second symbol starts after the first realized a trade and left a position open
C6_Witness ==
    /\ last.op = "NextSymbol"
    /\ k = 2
    /\ Gt(last.before.position, Zero)
    /\ Gt(last.before.entry_price, Zero)
    /\ Len(daily_returns) > 0

\* the evaluation has ended, by a return or by an exception
Ended == pc \in {"done", "raised"}

\* the table has no column the function takes prices from
NoPriceColumn ==
    /\ "price" \notin columns
    /\ "close_DOGE_1H" \notin columns
    /\ fn = "patched_performance_metrics" => "true_close" \notin columns

\* no price can be found for some row: no price column, or a NaN in it
Unresolved ==
    \/ NoPriceColumn
    \/ \E j \in 1..Len(signals_df) : IsNaN(signals_df[j][ResolvePriceColumn(fn, columns)])

\* C7 as stated: when a price of a row cannot be resolved the evaluation ends in
\* PriceResolutionError and never returns metrics.
C7_PriceResolutionError ==
    (Unresolved /\ Len(signals_df) > 0 /\ RequiredColumns \subseteq columns) =>
        /\ outcome \in {"none", "PriceResolutionError"}
        /\ Ended => outcome = "PriceResolutionError"

\* C7 amended: no PriceResolutionError is ever raised.  With no price column the
\* rows of every symbol are skipped and the all-zero metrics are returned.  A NaN
\* price is used as it is: a BUY at NaN opens a position with a NaN entry price, a
\* SELL at NaN realizes a NaN return, and metrics are returned all the same.
C7_SilentSkip ==
    /\ outcome # "PriceResolutionError"
    /\ ({"symbol", "timestamp"} \subseteq columns /\ NoPriceColumn) =>
          /\ last.op # "ReplayStep"
          /\ pc # "raised"
          /\ pc = "done" => (outcome = "metrics" /\ metrics = ZeroMetrics)
    /\ (RequiredColumns \subseteq columns /\ Ended) => Returned
    /\ (Replayed("BUY") /\ IsNaN(last.price) /\ last.before.position = Zero) =>
          (position = last.position_size /\ IsNaN(entry_price))
    /\ (Replayed("SELL") /\ IsNaN(last.price) /\ Gt(last.before.position, Zero)
            /\ Gt(last.before.entry_price, Zero)) =>
          (IsNaN(portfolio_value) /\ IsNaN(daily_returns[Len(daily_returns)]))

\* a table with a BUY and a SELL but no price column was turned into metrics
C7_Witness ==
    /\ Returned
    /\ NoPriceColumn
    /\ \E j \in 1..Len(signals_df) : signals_df[j].signal = "BUY"
    /\ \E j \in 1..Len(signals_df) : signals_df[j].signal = "SELL"

\* the table breaks the schema: a required field is missing, a signal is not one of
\* BUY, SELL, HOLD, or a size is outside [0, 1]
InvalidTable ==
    \/ ~(RequiredColumns \subseteq columns)
    \/ \E j \in 1..Len(signals_df) :
          \/ signals_df[j].signal \notin Signals
          \/ ~(Ge(signals_df[j].position_size, Zero) /\ Le(signals_df[j].position_size, One))

\* C8 as stated: a table that breaks the schema is rejected with SchemaError before
\* any row is replayed, and is never turned into metrics.
C8_SchemaError ==
    InvalidTable =>
        /\ last.op # "ReplayStep"
        /\ outcome \in {"none", "SchemaError"}
        /\ Ended => outcome = "SchemaError"

\* C8 amended: nothing is validated and no SchemaError is raised.  A missing
\* required field raises KeyError where the column is first read (run_optimization
\* then returns False with empty metrics and scores); a signal other than BUY and
\* SELL is replayed as a HOLD, a size outside [0, 1] is used as it is, and the table
\* is turned into metrics.
C8_NoValidation ==
    /\ outcome \in {"none", "metrics", "KeyError"}
    /\ ("symbol" \notin columns /\ pc # "start") => outcome = "KeyError"
    /\ ("symbol" \in columns /\ "timestamp" \notin columns /\ Len(signals_df) > 0 /\ Ended) =>
          outcome = "KeyError"
    /\ ({"symbol", "timestamp"} \subseteq columns /\ ~({"signal", "position_size"} \subseteq columns)
            /\ Len(signals_df) > 0 /\ ~NoPriceColumn /\ Ended) =>
          outcome = "KeyError"
    /\ (RequiredColumns \subseteq columns /\ Ended) => Returned
    /\ (last.op = "ReplayStep" /\ last.signal \notin {"BUY", "SELL"}) => State = last.before
    /\ (Replayed("BUY") /\ last.before.position = Zero) => position = last.position_size
    /\ (fn = "patched_performance_metrics" /\ pc = "done" /\ outcome = "KeyError") =>
          (~qualifies /\ metrics = EmptyDict /\ scores = EmptyDict)

\* a table with a size above 1 and a signal outside the enum was turned into metrics
C8_Witness ==
    /\ Returned
    /\ \E j \in 1..Len(signals_df) : Gt(signals_df[j].position_size, One)
    /\ \E j \in 1..Len(signals_df) : signals_df[j].signal = "SHORT"

\* C9: a table that realizes no trade yields the five metrics, all 0, and does not
\* qualify.
C9_ZeroTradesZeroMetrics ==
    (outcome = "metrics" /\ Len(daily_returns) = 0) =>
        /\ DOMAIN metrics = {"total_return", "sharpe_ratio", "max_drawdown", "num_trades", "win_rate"}
        /\ metrics = ZeroMetrics
        /\ ~Qualifies(score_performance(metrics))
        /\ (pc = "done" /\ fn = "patched_performance_metrics") => ~qualifies

\* run_optimization returned for a table with an unmatched BUY and no trade
C9_Witness ==
    /\ Returned
    /\ fn = "patched_performance_metrics"
    /\ Len(daily_returns) = 0
    /\ Gt(position, Zero)

Clamp(x, lo, hi) == IF Lt(x, lo) THEN lo ELSE IF Gt(x, hi) THEN hi ELSE x

\* C10: the scores are bounded: profitability in [0, 45], sharpe in [0, 35],
\* drawdown in [0, 20] and equal to clamp(20 - max_drawdown, 0, 20), and total is
\* their sum and lies in [0, 100].
C10_ScoresBounded ==
    DOMAIN scores # {} =>
        /\ Ge(scores.profitability, Zero) /\ Le(scores.profitability, Int2R(45))
        /\ Ge(scores.sharpe.sq, Zero) /\ RootLe(scores.sharpe, Int2R(35))
        /\ Ge(scores.drawdown, Zero) /\ Le(scores.drawdown, Int2R(20))
        /\ ~IsNaN(metrics.max_drawdown) =>
              scores.drawdown = Clamp(Sub(Int2R(20), metrics.max_drawdown), Zero, Int2R(20))
        /\ scores.total.r = Add(scores.profitability, scores.drawdown)
        /\ scores.total.sq = scores.sharpe.sq
        /\ SumGe(scores.total, Zero) /\ SumLe(scores.total, Int2R(100))

\* scores of metrics beyond every saturation point: return above 20, Sharpe ratio
\* above 2, drawdown above 20
C10_Witness ==
    /\ DOMAIN scores # {}
    /\ Gt(metrics.total_return, Int2R(20))
    /\ Gt(metrics.sharpe_ratio.sq, Int2R(4))
    /\ Gt(metrics.max_drawdown, Int2R(20))
    /\ scores.profitability = Int2R(45)
    /\ scores.sharpe.sq = Int2R(1225)
    /\ scores.drawdown = Zero

\* run_optimization has returned its verdict for scored metrics
Judged == pc = "done" /\ DOMAIN scores # {}

\* C11: the verdict is true if and only if profitability >= 9, sharpe >= 10,
\* drawdown >= 5 and total >= 50 hold at once; one failing threshold makes it false
\* whatever the total is.
C11_QualifiesIffAllThresholds ==
    Judged =>
        /\ qualifies <=>
              /\ Ge(scores.profitability, Int2R(9))
              /\ Ge(scores.sharpe.sq, Int2R(100))
              /\ Ge(scores.drawdown, Int2R(5))
              /\ SumGe(scores.total, Int2R(50))
        /\ ~Ge(scores.profitability, Int2R(9)) => ~qualifies
        /\ ~Ge(scores.sharpe.sq, Int2R(100)) => ~qualifies
        /\ ~Ge(scores.drawdown, Int2R(5)) => ~qualifies
        /\ ~SumGe(scores.total, Int2R(50)) => ~qualifies

\* a verdict of false for a total of at least 50 with the sharpe threshold alone failing
C11_Witness ==
    /\ Judged
    /\ ~qualifies
    /\ SumGe(scores.total, Int2R(50))
    /\ Ge(scores.profitability, Int2R(9))
    /\ Ge(scores.drawdown, Int2R(5))
    /\ ~Ge(scores.sharpe.sq, Int2R(100))

\* the metrics have been scored
Scored == pc \in {"qualify", "done"} /\ DOMAIN scores # {}

\* C12: among Metrics that differ only in total_return, a larger total_return never
\* has a smaller profitability score; among Metrics that differ only in
\* max_drawdown, a larger max_drawdown never has a larger drawdown score.
C12_ScoringMonotone ==
    Scored =>
        /\ \A t \in ReturnInputs :
              Gt(t, metrics.total_return) =>
                  Ge(ProfitScore([metrics EXCEPT !.total_return = t]),
                     scores.profitability)
        /\ \A x \in DrawdownInputs :
              Gt(x, metrics.max_drawdown) =>
                  Le(DrawdownScore([metrics EXCEPT !.max_drawdown = x]),
                     scores.drawdown)

\* scored metrics strictly inside both ramps: a larger total_return scores strictly
\* more and a larger max_drawdown strictly less
C12_Witness ==
    /\ Scored
    /\ \E t \in ReturnInputs :
          /\ Gt(t, metrics.total_return)
          /\ Gt(ProfitScore([metrics EXCEPT !.total_return = t]),
                scores.profitability)
    /\ \E x \in DrawdownInputs :
          /\ Gt(x, metrics.max_drawdown)
          /\ Lt(DrawdownScore([metrics EXCEPT !.max_drawdown = x]),
                scores.drawdown)

\* C13: the profitability score is exactly 45 for every total_return >= 20 and the
\* drawdown score is exactly 0 for every max_drawdown >= 20.
C13_Saturation ==
    Scored =>
        /\ Ge(metrics.total_return, Int2R(20)) => scores.profitability = Int2R(45)
        /\ Ge(metrics.max_drawdown, Int2R(20)) => scores.drawdown = Zero

\* metrics exactly on both boundaries were scored
C13_Witness ==
    /\ Scored
    /\ metrics.total_return = Int2R(20)
    /\ metrics.max_drawdown = Int2R(20)
    /\ scores.profitability = Int2R(45)
    /\ scores.drawdown = Zero

\* the table is one BUY of size 1 at price p followed by one SELL at price q
OneTrade(p, q) ==
    /\ Len(signals_df) = 2
    /\ signals_df[1].symbol = signals_df[2].symbol
    /\ signals_df[1].timestamp < signals_df[2].timestamp
    /\ signals_df[1].signal = "BUY" /\ signals_df[2].signal = "SELL"
    /\ signals_df[1].position_size = One
    /\ price_col # "none"
    /\ signals_df[1][price_col] = Int2R(p) /\ signals_df[2][price_col] = Int2R(q)

\* C14: a SELL that realizes a return appends (exit price - entry price) / entry
\* price times the position_size of the opening BUY, whatever the SELL row's own
\* position_size is, and multiplies portfolio_value by 1 + that contribution;
\* BUY@100 then SELL@105 at size 1 gives total_return 5, num_trades 1, win_rate 1,
\* and BUY@100 then SELL@95 gives total_return -5, win_rate 0.
C14_ContributionIsReturnTimesEntrySize ==
    /\ (Replayed("SELL") /\ Len(daily_returns) > Len(last.before.daily_returns)) =>
          LET c == Mul(Div(Sub(last.price, opened.price), opened.price), opened.position_size)
          IN  /\ daily_returns = Append(last.before.daily_returns, c)
              /\ portfolio_value = Mul(last.before.portfolio_value, Add(One, c))
              /\ \A r \in LooseKinds :
                    ReplayRecord(last.before, "SELL", r.position_size, last.price) = State
    /\ (Returned /\ OneTrade(100, 105)) =>
          /\ metrics.total_return = Int2R(5)
          /\ metrics.num_trades = 1
          /\ metrics.win_rate = One
    /\ (Returned /\ OneTrade(100, 95)) =>
          /\ metrics.total_return = Int2R(-5)
          /\ metrics.num_trades = 1
          /\ metrics.win_rate = Zero

\* metrics were returned for BUY@100 then SELL@105 at size 1
C14_Witness ==
    /\ Returned
    /\ OneTrade(100, 105)
    /\ Replayed("SELL")
    /\ daily_returns = <<R(1, 20)>>
    /\ metrics.total_return = Int2R(5)

\* C15: a second evaluation of the same table returns the Metrics of the first, and
\* no step of an evaluation changes the caller's table: its rows and its columns
\* stay what they were.
C15_Idempotent ==
    /\ []((run = 2 /\ Returned) => metrics = first)
    /\ [][signals_df' = signals_df /\ columns' = columns]_vars

\* the second evaluation of a table returned, after the first had realized a trade
\* and had put the prices into a 'price' column of its own copy of the rows
C15_Witness ==
    /\ run = 2
    /\ Returned
    /\ first.num_trades > 0
    /\ metrics = first
    /\ "price" \in symbol_columns \ columns

\* generate_signals has returned its table
SignalsReturned == spc = "returned"

\* C16: the table generate_signals returns has exactly the fields timestamp,
\* symbol, signal, position_size, also when it has no row; every signal is BUY,
\* SELL or HOLD, every position_size is in [0, 1], every symbol is a configured
\* target, and no two rows have the same timestamp and symbol.
C16_SignalTableShape ==
    SignalsReturned =>
        /\ result_df.columns = RequiredColumns
        /\ \A j \in 1..Len(result_df.rows) :
              /\ DOMAIN result_df.rows[j] = RequiredColumns
              /\ result_df.rows[j].signal \in Signals
              /\ Ge(result_df.rows[j].position_size, Zero)
              /\ Le(result_df.rows[j].position_size, One)
              /\ \E t \in 1..Len(Targets(strategy)) :
                    result_df.rows[j].symbol = Targets(strategy)[t]
        /\ \A j, m \in 1..Len(result_df.rows) :
              (j # m /\ result_df.rows[j].symbol = result_df.rows[m].symbol) =>
                  result_df.rows[j].timestamp # result_df.rows[m].timestamp

\* strategy.py returned a table of four signals that trades two different targets
C16_Witness ==
    /\ SignalsReturned
    /\ strategy = "strategy"
    /\ Len(result_df.rows) = 4
    /\ result_df.rows[1].signal = "BUY" /\ result_df.rows[2].signal = "SELL"
    /\ result_df.rows[3].symbol # result_df.rows[1].symbol
    /\ result_df.rows[4].symbol = result_df.rows[3].symbol

\* the largest of the first j values of a trajectory of numbers
RunningMax(h, j) ==
    LET RECURSIVE top(_)
        top(m) == IF m = 1 THEN h[1] ELSE IF Gt(h[m], top(m - 1)) THEN h[m] ELSE top(m - 1)
    IN  top(j)

\* how far, in percent of the running maximum, value j lies below it
Decline(h, j) == Mul(Div(Sub(RunningMax(h, j), h[j]), RunningMax(h, j)), Int2R(100))

\* the largest decline of a trajectory of numbers
LargestDecline(h) ==
    LET RECURSIVE worst(_)
        worst(m) ==
            IF m = 1 THEN Decline(h, 1)
            ELSE IF Gt(Decline(h, m), worst(m - 1)) THEN Decline(h, m) ELSE worst(m - 1)
    IN  worst(Len(h))

\* the trajectory never falls below its running maximum
NeverBelowPeak(h) == \A j \in 1..Len(h) : ~Lt(h[j], RunningMax(h, j))

HasNaN(h) == \E j \in 1..Len(h) : IsNaN(h[j])

\* C17 as stated: max_drawdown is a non-negative percentage, the largest relative
\* decline of the trajectory below its running maximum, and it is 0 exactly when
\* the trajectory never falls below its running maximum.
C17_DrawdownIsLargestDecline ==
    outcome = "metrics" =>
        /\ Ge(metrics.max_drawdown, Zero)
        /\ metrics.max_drawdown = Zero <=> NeverBelowPeak(portfolio_history)

\* C17 amended: for a trajectory of numbers max_drawdown is the largest relative
\* decline below the running maximum (seeded at the initial 1.0) as a non-negative
\* percentage, 0 exactly when the trajectory never falls below its running maximum,
\* and 5 for [1.0, 0.95]; for a trajectory that holds a NaN (a return realized at a
\* missing exit price) max_drawdown is NaN.
C17_DrawdownIsLargestDeclineOrNaN ==
    outcome = "metrics" =>
        IF HasNaN(portfolio_history)
        THEN IsNaN(metrics.max_drawdown)
        ELSE /\ portfolio_history[1] = One
             /\ metrics.max_drawdown = LargestDecline(portfolio_history)
             /\ Ge(metrics.max_drawdown, Zero)
             /\ metrics.max_drawdown = Zero <=> NeverBelowPeak(portfolio_history)
             /\ portfolio_history = <<One, R(95, 100)>> => metrics.max_drawdown = Int2R(5)

\* metrics were returned for a trajectory that rose, fell below its peak and is
\* still above its start
C17_Witness ==
    /\ Returned
    /\ Len(portfolio_history) = 3
    /\ ~HasNaN(portfolio_history)
    /\ Gt(portfolio_history[2], portfolio_history[3])
    /\ Gt(portfolio_history[3], portfolio_history[1])
    /\ Gt(metrics.max_drawdown, Zero)

\* the realized returns have no spread: none, one, or all the same
IdenticalReturns == \A j \in 1..Len(daily_returns) : daily_returns[j] = daily_returns[1]

\* C18: the Sharpe ratio is 0 whenever the realized returns have a standard deviation
\* of zero (one realized trade, any number of identical returns) and whenever there
\* are no trades; the sharpe score is then 0 and the strategy does not qualify.
C18_SharpeZeroWithoutSpread ==
    (outcome = "metrics" /\ IdenticalReturns) =>
        /\ metrics.sharpe_ratio = SharpeZero
        /\ Scored => scores.sharpe.sq = Zero
        /\ Judged => ~qualifies

\* the rows of timestamp ts, in the order they are held
AtTime(rows, ts) == SelectSeq(rows, LAMBDA r : r.timestamp = ts)

\* the rows are in non-decreasing order of timestamp
Ascending(rows) ==
    \A a, b \in 1..Len(rows) : a < b => rows[a].timestamp <= rows[b].timestamp

\* C19: the rows of a symbol are replayed in non-decreasing order of timestamp
\* whatever their order in the table, and rows of equal timestamp are replayed in
\* the order they have in the table (stable sort).
C19_StableTimestampOrder ==
    pc = "replay" =>
        /\ Ascending(symbol_signals)
        /\ Len(symbol_signals) = Len(FilterSymbol(signals_df, symbols[k]))
        /\ \A ts \in 1..(MaxTime + 1) :
              AtTime(symbol_signals, ts) = AtTime(FilterSymbol(signals_df, symbols[k]), ts)

\* the rows of the table regrouped so that its symbols first appear in the order syms
BySymbol(df, syms) ==
    LET RECURSIVE cat(_)
        cat(j) == IF j = 0 THEN <<>> ELSE cat(j - 1) \o FilterSymbol(df, syms[j])
    IN  cat(Len(syms))

Reversed(syms) == [j \in 1..Len(syms) |-> syms[Len(syms) + 1 - j]]

\* the metrics of the table with its symbols first appearing in the opposite order
Permuted == MetricsOf(fn, columns, BySymbol(signals_df, Reversed(symbols)))

\* C20 as stated: permuting the order in which the symbols of a table first appear
\* leaves total_return, sharpe_ratio, max_drawdown, num_trades and win_rate unchanged.
C20_SymbolOrderIndependent ==
    (Returned /\ Len(symbols) >= 2) => Permuted = metrics

\* C20 amended: permuting the order in which the symbols first appear leaves
\* total_return, sharpe_ratio, num_trades and win_rate unchanged; max_drawdown is
\* taken from the trajectory compounded in processing order and may change.
C20_SymbolOrderChangesDrawdownOnly ==
    (Returned /\ Len(symbols) >= 2) =>
        /\ Unique(BySymbol(signals_df, Reversed(symbols))) = Reversed(symbols)
        /\ Permuted.total_return = metrics.total_return
        /\ Permuted.sharpe_ratio = metrics.sharpe_ratio
        /\ Permuted.num_trades = metrics.num_trades
        /\ Permuted.win_rate = metrics.win_rate

\* three round trips over two symbols whose max_drawdown depends on which symbol is
\* replayed first
C20_Witness ==
    /\ Returned
    /\ Len(symbols) = 2
    /\ metrics.num_trades = 3
    /\ Permuted.max_drawdown # metrics.max_drawdown
    /\ Permuted.total_return = metrics.total_return

\* C21: the signals of strategy.py alternate in emission order, BUY first; every SELL
\* carries the symbol of the BUY right before it and comes on a later row, so that at
\* most one position is open at any row and no row emits both a BUY and a SELL
C21_SignalsAlternate ==
    /\ \A j \in 1..Len(signals) :
          /\ signals[j].signal = IF j % 2 = 1 THEN "BUY" ELSE "SELL"
          /\ j > 1 => signals[j].timestamp > signals[j - 1].timestamp
          /\ j % 2 = 0 => signals[j].symbol = signals[j - 1].symbol
    /\ spc = "loop" => (in_position <=> Len(signals) % 2 = 1)

\* a BUY, its SELL and a BUY of another symbol have been emitted
C21_Witness ==
    /\ Len(signals) >= 3
    /\ signals[2].signal = "SELL"
    /\ signals[3].symbol # signals[1].symbol

\* C22: every BUY of strategy.py at a row i is followed by the SELL of the same symbol
\* at a row j with i < j <= i + max_hold once the loop has passed row i + max_hold, and
\* no position is open for more than max_hold rows
C22_BoundedHolding ==
    /\ spc = "loop" /\ in_position => row_index - entry_index <= max_hold
    /\ \A j \in 1..Len(signals) :
          signals[j].signal = "BUY"
             /\ (row_index > signals[j].timestamp + max_hold \/ j < Len(signals))
             => /\ j < Len(signals)
                /\ signals[j + 1].signal = "SELL"
                /\ signals[j + 1].symbol = signals[j].symbol
                /\ signals[j + 1].timestamp > signals[j].timestamp
                /\ signals[j + 1].timestamp <= signals[j].timestamp + max_hold

\* a position was held for max_hold rows and sold on the last of them
C22_Witness ==
    /\ Len(signals) >= 2
    /\ signals[1].signal = "BUY"
    /\ signals[2].signal = "SELL"
    /\ signals[2].timestamp = signals[1].timestamp + max_hold

\* C23: strategy.py emits no signal for a row of index below 50, and no BUY on a row
\* fewer than cooldown_period rows after the row of the most recent SELL
C23_WarmUpAndCooldown ==
    /\ \A j \in 1..Len(signals) : signals[j].timestamp >= 50
    /\ \A j \in 2..Len(signals) :
          signals[j].signal = "BUY" /\ signals[j - 1].signal = "SELL"
             => signals[j].timestamp - signals[j - 1].timestamp >= 3
    /\ spc = "loop" /\ ~in_position /\ signals # <<>>
          => last_trade_index = signals[Len(signals)].timestamp

\* a BUY on row 50, and a BUY exactly cooldown_period rows after a SELL
C23_Witness ==
    /\ Len(signals) >= 3
    /\ signals[1].timestamp = WarmUpRows
    /\ signals[2].signal = "SELL"
    /\ signals[3].signal = "BUY"
    /\ signals[3].timestamp = signals[2].timestamp + cooldown_period

\* C24: at the start of every loop iteration of strategy.py in_position holds exactly
\* when held_symbol is set; an open position has an entry price above zero and a peak
\* that is not below it; while the position stays open neither the peak nor the
\* trailing stop decreases, and the exit resets both
C24_PositionState ==
    /\ [](spc = "loop" =>
            /\ in_position <=> held_symbol # "None"
            /\ in_position => held_entry_price > 0 /\ peak_price >= held_entry_price)
    /\ [][spc = "loop" /\ in_position /\ in_position'
             => /\ peak_price' >= peak_price
                /\ trailing_stop # None
                      => trailing_stop' # None /\ trailing_stop' >= trailing_stop]_vars
    /\ [][spc = "loop" /\ in_position /\ ~in_position'
             => peak_price' = 0 /\ trailing_stop' = None]_vars

\* an open position whose peak has risen above the entry price and whose trailing
\* stop is set
C24_Witness ==
    /\ spc = "loop"
    /\ in_position
    /\ peak_price > held_entry_price
    /\ trailing_stop # None
    /\ row_index - entry_index >= 2

\* C25: on a table that has a price column and no true_close column the function that
\* ran returns the Metrics the other of the two functions returns for it, and on the
\* same table with a true_close column that repeats the price column
\* patched_performance_metrics and calculate_performance_metrics return the same
\* Metrics as well
C25_PatchedEquivalent ==
    pc = "done" /\ outcome = "metrics" /\ "price" \in columns /\ "true_close" \notin columns
       => LET other == CHOOSE g \in Functions : g # fn
              both == columns \cup {"true_close"}
              twin == [j \in 1..Len(signals_df) |->
                          [signals_df[j] EXCEPT !.true_close = signals_df[j].price]]
          IN  /\ metrics = MetricsOf(other, columns, signals_df)
              /\ MetricsOf("patched_performance_metrics", both, twin)
                    = MetricsOf("calculate_performance_metrics", both, twin)
              /\ MetricsOf("patched_performance_metrics", both, twin) = metrics

\* patched_performance_metrics has returned the Metrics of a table with a price
\* column, no true_close column and a closed trade
C25_Witness ==
    /\ pc = "done"
    /\ outcome = "metrics"
    /\ fn = "patched_performance_metrics"
    /\ "price" \in columns
    /\ "true_close" \notin columns
    /\ metrics.num_trades >= 1

====
